---- MODULE Spec2Model ----
(***************************************************************************)
(* Lele's Boutique API (src/main.py, src/schemas.py): the content read     *)
(* endpoints with their sample fallback, the lead / booking write          *)
(* endpoints, request validation and the SMTP notification.                *)
(*                                                                         *)
(* Representation.  A JSON object / Python dict is a function whose DOMAIN *)
(* is the set of keys present.  A validated model instance is such a       *)
(* function too, an Optional field whose value is None being absent.       *)
(* os.environ is a function from the names that are set to their text.     *)
(* Text that the code parses (an email address, SMTP_PORT) is a sequence   *)
(* of one-character strings; all other text is a TLA+ string.              *)
(***************************************************************************)
EXTENDS Integers, Sequences, FiniteSets, TLC

VARIABLES
    environ,    \* os.environ of the process
    storage,    \* "reachable" | "unavailable": the document store as seen by database.py
    store,      \* collection name -> sequence of stored documents
    nextId,     \* number of identifiers the store has assigned
    pc,         \* worker -> position of the POST handler it runs
    req,        \* worker -> the request it is handling
    last,       \* the most recent HTTP response (with what the handler did for it)
    okIds,      \* ids carried by success responses of POST /lead and /book, in order
    lastSend    \* outcome of the most recent direct call of send_email

vars == <<environ, storage, store, nextId, pc, req, last, okIds, lastSend>>

(***************************************************************************)
(* Bounds                                                                  *)
(***************************************************************************)
MaxDocs  == 2    \* lead + booking records created in one behaviour
MaxSeed  == 2    \* content documents the external seeding process inserts
MaxLimit == 3    \* the limit query parameter ranges over -MaxLimit..MaxLimit

Workers == {"w1", "w2"}

(***************************************************************************)
(* Python values                                                           *)
(***************************************************************************)
\* None where a str is expected (os.getenv of an unset name, a JSON null).
PyNone == "<None>"

\* bool(x) for x a str or None.
Truthy(x) == x # PyNone /\ x # ""

\* x or y, for str / None operands.
PyOr(x, y) == IF Truthy(x) THEN x ELSE y

Min(a, b) == IF a <= b THEN a ELSE b
Max(a, b) == IF a >= b THEN a ELSE b

\* s[:k], Python slicing with a possibly negative stop.
PySlice(s, k) ==
    IF k >= 0 THEN SubSeq(s, 1, Min(k, Len(s)))
              ELSE SubSeq(s, 1, Max(Len(s) + k, 0))

\* dict without key k (d.pop(k, None) on a copy).
Without(d, k) == [x \in DOMAIN d \ {k} |-> d[x]]

\* dict restricted to the keys of ks that it has.
Restrict(d, ks) == [x \in DOMAIN d \cap ks |-> d[x]]

Range(s) == {s[i] : i \in DOMAIN s}

(***************************************************************************)
(* Environment                                                             *)
(***************************************************************************)
StrKeys == {"SMTP_HOST", "SMTP_USER", "SMTP_PASS", "EMAIL_FROM", "EMAIL_TO"}
StrVals == {"", "v"}
PortTexts == {<<>>, <<"5", "8", "7">>, <<"2", "5">>, <<"a", "b">>}

\* Every environment over the notification settings.
Environs ==
    { f @@ g : f \in UNION {[K -> StrVals] : K \in SUBSET StrKeys},
               g \in {<<>>} \cup {("SMTP_PORT" :> p) : p \in PortTexts} }

\* The deployments the request handlers are explored under.
Deployments ==
    { <<>>,
      ("SMTP_PORT" :> <<>>),
      [SMTP_HOST |-> "v", SMTP_USER |-> "v", SMTP_PASS |-> "v", EMAIL_TO |-> "v"],
      [SMTP_HOST |-> "v", SMTP_USER |-> "v", SMTP_PASS |-> "", EMAIL_FROM |-> "v",
       EMAIL_TO |-> "v"] }

\* os.getenv(name) / os.getenv(name, default)
getenv(env, name, default) == IF name \in DOMAIN env THEN env[name] ELSE default

Digits == {"0", "1", "2", "3", "4", "5", "6", "7", "8", "9"}

\* int(text) raises ValueError unless text is a numeral.
IsNumeral(text) == Len(text) > 0 /\ \A i \in DOMAIN text : text[i] \in Digits

(***************************************************************************)
(* send_email                                                              *)
(***************************************************************************)
\* What the SMTP server does with a session: it goes through, or a step of
\* the with-block raises (the connection is refused, the login is rejected).
SmtpBehaviours == {"ok", "refused", "auth_error"}

\* The outcome of send_email(subject, body, to_email) in environment env
\* against a server behaving as smtp:
\*   returned  "True" | "False" | "raised"
\*   error     str(exception) when raised
\*   connected whether smtplib.SMTP(host, port) was called
\*   msg       the message handed to the session
NoMsg == <<>>

send_email(env, subject, to_email, smtp) ==
    LET host     == getenv(env, "SMTP_HOST", PyNone)
        portText == getenv(env, "SMTP_PORT", <<"5", "8", "7">>)
        user     == getenv(env, "SMTP_USER", PyNone)
        password == getenv(env, "SMTP_PASS", PyNone)
        sender   == PyOr(getenv(env, "EMAIL_FROM", PyNone), user)
    IN  IF ~IsNumeral(portText)
        THEN [returned |-> "raised", error |-> "invalid literal for int()",
              connected |-> FALSE, msg |-> NoMsg]
        ELSE IF ~(Truthy(host) /\ Truthy(user) /\ Truthy(password)
                  /\ Truthy(sender) /\ Truthy(to_email))
        THEN [returned |-> "False", error |-> "", connected |-> FALSE, msg |-> NoMsg]
        ELSE LET msg == [Subject |-> subject, From |-> sender, To |-> to_email]
             IN  IF smtp = "ok"
                 THEN [returned |-> "True", error |-> "", connected |-> TRUE,
                       msg |-> msg]
                 ELSE [returned |-> "raised", error |-> smtp, connected |-> TRUE,
                       msg |-> msg]

(***************************************************************************)
(* schemas.py                                                              *)
(***************************************************************************)
\* Email addresses of the request bodies, as character sequences.
EmailPlain == <<"a", "@", "x", ".", "c">>
EmailUpper == <<"a", "@", "X", ".", "c">>
EmailNoAt  == <<"a", "x", ".", "c">>
EmailNoDot == <<"a", "@", "x">>
EmailNoLocal == <<"@", "x", ".", "c">>
EmailTwoAt == <<"a", "@", "@", "x", ".", "c">>

AtPositions(e) == {i \in DOMAIN e : e[i] = "@"}

\* The position of the last @, 0 when there is none.
LastAt(e) ==
    IF AtPositions(e) = {} THEN 0
    ELSE CHOOSE i \in AtPositions(e) : \A j \in AtPositions(e) : j <= i

\* No empty label: no leading, trailing or doubled dot.
DotsOk(s) ==
    /\ Len(s) > 0
    /\ s[1] # "." /\ s[Len(s)] # "."
    /\ \A i \in 1..(Len(s) - 1) : ~(s[i] = "." /\ s[i + 1] = ".")

\* EmailStr: one @, a non-empty local part, a dotted domain.
ValidEmail(e) ==
    /\ Cardinality(AtPositions(e)) = 1
    /\ LET at     == LastAt(e)
           local  == SubSeq(e, 1, at - 1)
           domain == SubSeq(e, at + 1, Len(e))
       IN  /\ DotsOk(local)
           /\ DotsOk(domain)
           /\ \E i \in DOMAIN domain : domain[i] = "."

Lower(ch) == CASE ch = "X" -> "x" [] ch = "A" -> "a" [] ch = "C" -> "c" [] OTHER -> ch

\* EmailStr keeps the local part and lower-cases the domain.
NormalizeEmail(e) ==
    [i \in DOMAIN e |-> IF i > LastAt(e) THEN Lower(e[i]) ELSE e[i]]

\* A required str field: present and not null.
HasStr(body, k) == k \in DOMAIN body /\ body[k] # PyNone

\* The Optional[str] fields of ks that body gives a non-null value.
OptionalStr(body, ks) ==
    [k \in {x \in DOMAIN body \cap ks : body[x] # PyNone} |-> body[k]]

\* Faulty variant: the declared default is not applied.
DefaultStr_none(body, k, dflt) == OptionalStr(body, {k})

\* An Optional[str] field k with default dflt.
DefaultStr(body, k, dflt) ==
    IF k \in DOMAIN body THEN OptionalStr(body, {k}) ELSE (k :> dflt)

Rejected == [ok |-> FALSE]
Accepted(v) == [ok |-> TRUE, value |-> v]

\* Faulty variant: email declared str instead of EmailStr.
LeadEmailOk_present(body) == "email" \in DOMAIN body

\* The email field of Lead: required, an EmailStr.
LeadEmailOk(body) == "email" \in DOMAIN body /\ ValidEmail(body.email)

\* Lead(**body): the validated instance, or Rejected (a ValidationError).
Lead(body) ==
    IF HasStr(body, "name") /\ LeadEmailOk(body)
    THEN Accepted([name |-> body.name, email |-> NormalizeEmail(body.email)]
                  @@ OptionalStr(body, {"phone", "message"})
                  @@ DefaultStr(body, "source", "website"))
    ELSE Rejected

Booking(body) ==
    IF /\ HasStr(body, "name")
       /\ "email" \in DOMAIN body /\ ValidEmail(body.email)
       /\ HasStr(body, "service")
       /\ HasStr(body, "date")
    THEN Accepted([name |-> body.name, email |-> NormalizeEmail(body.email),
                   service |-> body.service, date |-> body.date]
                  @@ OptionalStr(body, {"phone", "notes"}))
    ELSE Rejected

\* A numeric field with Field(ge=0), when present.
GeZero(d, k) == k \in DOMAIN d => d[k] >= 0

ServiceFields     == {"title", "description", "price_from", "duration_min"}
ProductFields     == {"title", "description", "price", "image", "tag"}
TestimonialFields == {"name", "quote", "avatar"}
PostFields        == {"title", "excerpt", "image", "published_at"}

Service(d) ==
    IF "title" \in DOMAIN d /\ GeZero(d, "price_from") /\ GeZero(d, "duration_min")
    THEN Accepted(Restrict(d, ServiceFields)) ELSE Rejected

\* Faulty variant: tag declared required.
Product_tagRequired(d) ==
    IF "title" \in DOMAIN d /\ "price" \in DOMAIN d /\ GeZero(d, "price")
       /\ "tag" \in DOMAIN d
    THEN Accepted(Restrict(d, ProductFields)) ELSE Rejected

Product(d) ==
    IF "title" \in DOMAIN d /\ "price" \in DOMAIN d /\ GeZero(d, "price")
    THEN Accepted(Restrict(d, ProductFields)) ELSE Rejected

Testimonial(d) ==
    IF "name" \in DOMAIN d /\ "quote" \in DOMAIN d
    THEN Accepted(Restrict(d, TestimonialFields)) ELSE Rejected

Post(d) ==
    IF "title" \in DOMAIN d
    THEN Accepted(Restrict(d, PostFields)) ELSE Rejected

\* The response model of each content endpoint.
ResponseModel(c, d) ==
    CASE c = "service"     -> Service(d)
      [] c = "product"     -> Product(d)
      [] c = "testimonial" -> Testimonial(d)
      [] c = "post"        -> Post(d)

(***************************************************************************)
(* Request inputs                                                          *)
(***************************************************************************)
LeadBodies ==
    { [name |-> "Amara", email |-> EmailPlain],
      [name |-> "", email |-> EmailUpper, phone |-> "555", source |-> "ad"],
      [name |-> "Amara", email |-> EmailPlain, source |-> PyNone],
      [email |-> EmailPlain],
      [name |-> "Amara"],
      [name |-> "Amara", email |-> EmailNoAt],
      [name |-> "Amara", email |-> EmailNoDot] }

BookingBodies ==
    { [name |-> "Amara", email |-> EmailUpper, service |-> "Brow Sculpt & Tint",
       date |-> "soon", notes |-> "call first"],
      [name |-> "Amara", email |-> EmailPlain, date |-> "2025-01-31T10:00"],
      [name |-> "Amara", email |-> EmailPlain, service |-> "x"],
      [name |-> "Amara", email |-> EmailTwoAt, service |-> "x", date |-> "soon"] }

\* The smaller inputs of the specification that runs every endpoint together.
FewLeadBodies == { [name |-> "Amara", email |-> EmailPlain],
                   [name |-> "Amara", email |-> EmailNoLocal] }
FewBookingBodies ==
    { [name |-> "Amara", email |-> EmailPlain, service |-> "x", date |-> "soon"],
      [name |-> "Amara", email |-> EmailPlain] }
FewQueries == {<<>>, [limit |-> 1]}
FewServiceDocs == { [title |-> "Facial", price_from |-> 40, created_at |-> "t0"] }

\* The query string of a content request: no parameter, or limit=n.
Queries == {<<>>} \cup {[limit |-> n] : n \in (0 - MaxLimit)..MaxLimit}

(***************************************************************************)
(* The document store                                                      *)
(***************************************************************************)
ContentCollections == {"service", "product", "testimonial", "post"}
Collections == ContentCollections \cup {"lead", "booking"}

\* Documents the external seeding process may put in a content collection.
SeedDocs(c) ==
    CASE c = "service" ->
            { [title |-> "Facial", price_from |-> 40, created_at |-> "t0"],
              [title |-> "Peel", price_from |-> 0 - 5] }
      [] c = "product" ->
            { [title |-> "Balm", price |-> 12],
              [title |-> "Balm"] }
      [] c = "testimonial" ->
            { [name |-> "Ines", quote |-> "Lovely."],
              [name |-> "Ines"] }
      [] c = "post" ->
            { [title |-> "Spring", excerpt |-> "Linen."],
              [excerpt |-> "Linen."] }

Seeded == Len(store["service"]) + Len(store["product"])
          + Len(store["testimonial"]) + Len(store["post"])

\* The store with record rec inserted in collection c under identifier id.
Inserted(s, c, rec, id) == [s EXCEPT ![c] = Append(@, rec @@ ("_id" :> id))]

\* get_documents(c, {}, limit): the documents of c, at most |limit| of them
\* when a non-zero limit is given; nothing when the store cannot be reached.
get_documents(st, s, c, query) ==
    IF st # "reachable" THEN <<>>
    ELSE IF "limit" \in DOMAIN query /\ query.limit # 0
    THEN SubSeq(s[c], 1, Min(Len(s[c]),
                             IF query.limit < 0 THEN 0 - query.limit ELSE query.limit))
    ELSE s[c]

(***************************************************************************)
(* Content endpoints                                                       *)
(***************************************************************************)
ServiceSample ==
    << [title |-> "Signature Makeup", description |-> "Flawless, camera-ready finish.",
        price_from |-> 180, duration_min |-> 90],
       [title |-> "Haute Couture Styling",
        description |-> "Personalized wardrobe curation.",
        price_from |-> 350, duration_min |-> 120],
       [title |-> "Brow Sculpt & Tint", description |-> "Perfectly framed elegance.",
        price_from |-> 60, duration_min |-> 30] >>

ProductSample ==
    << [title |-> "Velvet Matte Lip Color", description |-> "Petal-soft finish.",
        price |-> 48,
        image |-> "https://images.unsplash.com/photo-1585238342028-4bbc0a3d88a5?w=800&q=60",
        tag |-> "New"],
       [title |-> "Silk Glow Serum", description |-> "Radiant complexion.",
        price |-> 82,
        image |-> "https://images.unsplash.com/photo-1615485737656-371b3f21a6f1?w=800&q=60"],
       [title |-> "Noir Parfum", description |-> "Smoked velvet, white florals.",
        price |-> 120,
        image |-> "https://images.unsplash.com/photo-1594035910387-fea47794261f?w=800&q=60",
        tag |-> "Bestseller"] >>

TestimonialSample ==
    << [name |-> "Amara L.", quote |-> "An experience, not a service. I felt exquisite.",
        avatar |-> "https://images.unsplash.com/photo-1554151228-14d9def656e4?w=200&q=60"],
       [name |-> "Celeste R.", quote |-> "Every detail considered. Effortlessly elegant.",
        avatar |-> "https://images.unsplash.com/photo-1544005313-94ddf0286df2?w=200&q=60"] >>

PostSample ==
    << [title |-> "Autumn Atelier", excerpt |-> "Tonal layering in cashmere and silk.",
        image |-> "https://images.unsplash.com/photo-1509631179647-0177331693ae?w=1200&q=60"],
       [title |-> "Gilded Evenings", excerpt |-> "A study in light and shadow.",
        image |-> "https://images.unsplash.com/photo-1483985988355-763728e1932f?w=1200&q=60"] >>

SampleOf(c) ==
    CASE c = "service"     -> ServiceSample
      [] c = "product"     -> ProductSample
      [] c = "testimonial" -> TestimonialSample
      [] c = "post"        -> PostSample

\* limit or len(sample)
LimitOr(query, n) ==
    IF "limit" \in DOMAIN query /\ query.limit # 0 THEN query.limit ELSE n

\* Faulty variant: the identifier is left in place.
StripId_keep(docs) == docs

\* for d in docs: d.pop("_id", None)
StripId(docs) == [i \in DOMAIN docs |-> Without(docs[i], "_id")]

\* What a list_* handler returns for the documents docs of its query.
ListReturn(sample, docs, query) ==
    IF docs = <<>>
    THEN PySlice(sample, LimitOr(query, Len(sample)))
    ELSE StripId(docs)

\* response_model=List[...]: every returned item is validated and serialised
\* with the model's fields; an item that fails makes the response a 500.
Serialise(c, ret) ==
    IF \A i \in DOMAIN ret : ResponseModel(c, ret[i]).ok
    THEN [status |-> 200, body |-> [i \in DOMAIN ret |-> ResponseModel(c, ret[i]).value]]
    ELSE [status |-> 500, body |-> <<>>]

\* Faulty variant: the handler strips the identifier from the stored documents.
ListContent_inplace(ep, c, query) ==
    LET docs == get_documents(storage, store, c, query)
        ret  == ListReturn(SampleOf(c), docs, query)
    IN  /\ last' = [ep |-> ep, coll |-> c, query |-> query, held |-> Len(store[c]),
                    docs |-> docs, ret |-> ret]
                   @@ Serialise(c, ret)
        /\ store' = [store EXCEPT ![c] = IF docs = <<>> THEN @ ELSE StripId(@)]
        /\ UNCHANGED <<environ, storage, nextId, pc, req, okIds, lastSend>>

\* GET ep, backed by collection c.  The response records, beside the answer,
\* the query, the size of c, the documents the query returned and the list
\* the handler returned.
ListContent(ep, c, query) ==
    LET docs == get_documents(storage, store, c, query)
        ret  == ListReturn(SampleOf(c), docs, query)
    IN  /\ last' = [ep |-> ep, coll |-> c, query |-> query, held |-> Len(store[c]),
                    docs |-> docs, ret |-> ret]
                   @@ Serialise(c, ret)
        /\ UNCHANGED <<environ, storage, store, nextId, pc, req, okIds, lastSend>>

list_services(query)     == ListContent("/services", "service", query)
list_products(query)     == ListContent("/products", "product", query)
list_testimonials(query) == ListContent("/testimonials", "testimonial", query)
list_posts(query)        == ListContent("/posts", "post", query)

(***************************************************************************)
(* Lead capture and booking                                                *)
(***************************************************************************)
NotCalled == [returned |-> "not called", error |-> "", connected |-> FALSE, msg |-> NoMsg]
NoReq == [ep |-> "none"]

\* The framework validates the body against the handler's payload model:
\* a 422 without entering the handler, or the handler starts.
Receive(w, ep, body, validated) ==
    /\ pc[w] = "idle"
    /\ IF validated.ok
       THEN /\ nextId + Cardinality({v \in Workers : pc[v] = "create"}) < MaxDocs
            /\ pc' = [pc EXCEPT ![w] = "create"]
            /\ req' = [req EXCEPT ![w] = [ep |-> ep, body |-> body,
                                          payload |-> validated.value]]
            /\ UNCHANGED last
       ELSE /\ last' = [ep |-> ep, status |-> 422, body |-> body, created |-> FALSE,
                        mail |-> NotCalled]
            /\ UNCHANGED <<pc, req>>
    /\ UNCHANGED <<environ, storage, store, nextId, okIds, lastSend>>

\* create_document(c, payload): insert and return the new identifier, or
\* raise when the store is not available; the handler turns that into a 500.
Persist(w, ep, c) ==
    /\ pc[w] = "create"
    /\ req[w].ep = ep
    /\ IF storage = "reachable"
       THEN /\ nextId' = nextId + 1
            /\ store' = Inserted(store, c, req[w].payload, nextId + 1)
            /\ req' = [req EXCEPT ![w] = @ @@ [id |-> nextId + 1]]
            /\ pc' = [pc EXCEPT ![w] = "notify"]
            /\ UNCHANGED last
       ELSE /\ last' = [ep |-> ep, status |-> 500, detail |-> "Database not available",
                        body |-> req[w].body, created |-> FALSE, mail |-> NotCalled]
            /\ pc' = [pc EXCEPT ![w] = "idle"]
            /\ req' = [req EXCEPT ![w] = NoReq]
            /\ UNCHANGED <<store, nextId>>
    /\ UNCHANGED <<environ, storage, okIds, lastSend>>

\* Faulty variant: an exception of send_email is swallowed.
Notify_swallow(w, ep, subject, smtp) ==
    /\ pc[w] = "notify"
    /\ req[w].ep = ep
    /\ LET owner_email == getenv(environ, "EMAIL_TO", PyNone)
           mail        == send_email(environ, subject, PyOr(owner_email, ""), smtp)
       IN  /\ last' = [ep |-> ep, status |-> 200, id |-> req[w].id,
                       body |-> req[w].body, created |-> TRUE,
                       recId |-> req[w].id, mail |-> mail]
           /\ okIds' = Append(okIds, req[w].id)
    /\ pc' = [pc EXCEPT ![w] = "idle"]
    /\ req' = [req EXCEPT ![w] = NoReq]
    /\ UNCHANGED <<environ, storage, store, nextId, lastSend>>

\* send_email(subject, body, owner_email or ""), then the success payload;
\* an exception of send_email is caught by the same except clause.
Notify(w, ep, subject, smtp) ==
    /\ pc[w] = "notify"
    /\ req[w].ep = ep
    /\ LET owner_email == getenv(environ, "EMAIL_TO", PyNone)
           mail        == send_email(environ, subject, PyOr(owner_email, ""), smtp)
       IN  IF mail.returned = "raised"
           THEN /\ last' = [ep |-> ep, status |-> 500, detail |-> mail.error,
                            body |-> req[w].body, created |-> TRUE,
                            recId |-> req[w].id, mail |-> mail]
                /\ UNCHANGED okIds
           ELSE /\ last' = [ep |-> ep, status |-> 200, id |-> req[w].id,
                            body |-> req[w].body, created |-> TRUE,
                            recId |-> req[w].id, mail |-> mail]
                /\ okIds' = Append(okIds, req[w].id)
    /\ pc' = [pc EXCEPT ![w] = "idle"]
    /\ req' = [req EXCEPT ![w] = NoReq]
    /\ UNCHANGED <<environ, storage, store, nextId, lastSend>>

create_lead_receive(w, body) == Receive(w, "/lead", body, Lead(body))
create_lead_persist(w)       == Persist(w, "/lead", "lead")
create_lead_notify(w, smtp)  == Notify(w, "/lead", "New Lead", smtp)

create_booking_receive(w, body) == Receive(w, "/book", body, Booking(body))
\* Faulty variant: the booking is written to the lead collection.
create_booking_persist_lead(w)  == Persist(w, "/book", "lead")
create_booking_persist(w)       == Persist(w, "/book", "booking")
create_booking_notify(w, smtp)  == Notify(w, "/book", "New Booking", smtp)

(***************************************************************************)
(* The environment of the service                                          *)
(***************************************************************************)
\* The external seeding process inserts a content document.
Seed(c, d) ==
    /\ Seeded < MaxSeed
    /\ store' = Inserted(store, c, d, 1000 + Seeded)
    /\ UNCHANGED <<environ, storage, nextId, pc, req, last, okIds, lastSend>>

\* The store becomes unreachable, or reachable again.
StorageChange ==
    /\ storage' = IF storage = "reachable" THEN "unavailable" ELSE "reachable"
    /\ UNCHANGED <<environ, store, nextId, pc, req, last, okIds, lastSend>>

\* A direct call of send_email.
send_email_call(to_email, smtp) ==
    /\ lastSend' = [to |-> to_email, smtp |-> smtp]
                   @@ send_email(environ, "subject", to_email, smtp)
    /\ UNCHANGED <<environ, storage, store, nextId, pc, req, last, okIds>>

(***************************************************************************)
(* Specifications                                                          *)
(***************************************************************************)
InitCommon ==
    /\ store = [c \in Collections |-> <<>>]
    /\ nextId = 0
    /\ pc = [w \in Workers |-> "idle"]
    /\ req = [w \in Workers |-> NoReq]
    /\ last = [ep |-> "none", status |-> 0]
    /\ okIds = <<>>
    /\ lastSend = NotCalled

\* Every endpoint together, on the smaller inputs.
Init ==
    /\ environ \in {<<>>, [SMTP_HOST |-> "v", SMTP_USER |-> "v", SMTP_PASS |-> "v",
                           EMAIL_TO |-> "v"]}
    /\ storage = "reachable"
    /\ InitCommon

Next ==
    \/ \E w \in Workers, body \in FewLeadBodies : create_lead_receive(w, body)
    \/ \E w \in Workers : create_lead_persist(w)
    \/ \E w \in Workers, smtp \in {"ok", "refused"} : create_lead_notify(w, smtp)
    \/ \E w \in Workers, body \in FewBookingBodies : create_booking_receive(w, body)
    \/ \E w \in Workers : create_booking_persist(w)
    \/ \E w \in Workers, smtp \in {"ok", "refused"} : create_booking_notify(w, smtp)
    \/ \E query \in FewQueries : list_services(query)
    \/ \E query \in FewQueries : list_products(query)
    \/ \E query \in FewQueries : list_testimonials(query)
    \/ \E query \in FewQueries : list_posts(query)
    \/ \E d \in FewServiceDocs : Seed("service", d)
    \/ StorageChange

Spec == Init /\ [][Next]_vars

\* The write endpoints, two requests in flight, over the deployments.
InitWrite ==
    /\ environ \in Deployments
    /\ storage \in {"reachable", "unavailable"}
    /\ InitCommon

NextWrite ==
    \/ \E w \in Workers, body \in LeadBodies : create_lead_receive(w, body)
    \/ \E w \in Workers : create_lead_persist(w)
    \/ \E w \in Workers, smtp \in SmtpBehaviours : create_lead_notify(w, smtp)
    \/ \E w \in Workers, body \in BookingBodies : create_booking_receive(w, body)
    \/ \E w \in Workers : create_booking_persist(w)
    \/ \E w \in Workers, smtp \in SmtpBehaviours : create_booking_notify(w, smtp)
    \/ StorageChange

SpecWrite == InitWrite /\ [][NextWrite]_vars

\* The content endpoints over every seeded store and query.
InitRead ==
    /\ environ = <<>>
    /\ storage \in {"reachable", "unavailable"}
    /\ InitCommon

NextRead ==
    \/ \E query \in Queries : list_services(query)
    \/ \E query \in Queries : list_products(query)
    \/ \E query \in Queries : list_testimonials(query)
    \/ \E query \in Queries : list_posts(query)
    \/ \E c \in ContentCollections : \E d \in SeedDocs(c) : Seed(c, d)

SpecRead == InitRead /\ [][NextRead]_vars

\* send_email on its own, over every environment.
InitMail ==
    /\ environ \in Environs
    /\ storage = "reachable"
    /\ InitCommon

NextMail ==
    \E to_email \in {"", "owner@x.c"}, smtp \in SmtpBehaviours :
        send_email_call(to_email, smtp)

SpecMail == InitMail /\ [][NextMail]_vars

(***************************************************************************)
(* Properties                                                              *)
(***************************************************************************)
GetEps  == {"/services", "/products", "/testimonials", "/posts"}
PostEps == {"/lead", "/book"}

IsPrefix(s, t) == Len(s) <= Len(t) /\ s = SubSeq(t, 1, Len(s))

\* The documents of collection c that carry identifier id.
WithId(c, id) == {i \in DOMAIN store[c] : store[c][i]["_id"] = id}

\* The validated payload of a request body of endpoint ep.
PayloadOf(ep, body) == IF ep = "/lead" THEN Lead(body).value ELSE Booking(body).value
CollectionOf(ep) == IF ep = "/lead" THEN "lead" ELSE "booking"

\* The settings under which send_email goes on to open a session.
Configured(env, to_email) ==
    /\ Truthy(getenv(env, "SMTP_HOST", PyNone))
    /\ Truthy(getenv(env, "SMTP_USER", PyNone))
    /\ Truthy(getenv(env, "SMTP_PASS", PyNone))
    /\ Truthy(PyOr(getenv(env, "EMAIL_FROM", PyNone), getenv(env, "SMTP_USER", PyNone)))
    /\ Truthy(to_email)

\* C1 (as claimed): a content GET over an empty collection answers 200 with
\* the sample list of its type, never an empty list; with a limit below the
\* sample size it answers the first `limit` entries of the sample list.
C1_SampleFallback ==
    (last.ep \in GetEps /\ last.held = 0) =>
        /\ last.status = 200
        /\ last.body # <<>>
        /\ IF "limit" \in DOMAIN last.query /\ last.query.limit < Len(SampleOf(last.coll))
           THEN last.body = SubSeq(SampleOf(last.coll), 1, last.query.limit)
           ELSE last.body = SampleOf(last.coll)

\* C2: when the backing collection is non-empty, no record that a content
\* GET returns (from the handler, or in the serialised body) has an _id key.
C2_NoInternalId ==
    (last.ep \in GetEps /\ last.held > 0) =>
        /\ \A i \in DOMAIN last.ret : "_id" \notin DOMAIN last.ret[i]
        /\ \A i \in DOMAIN last.body : "_id" \notin DOMAIN last.body[i]

C2_Witness ==
    /\ last.ep \in GetEps /\ last.held > 0 /\ last.status = 200
    /\ last.docs # <<>> /\ "_id" \in DOMAIN last.docs[1]
    /\ Len(last.body) = Len(last.docs)

\* C3: a POST /lead whose email is not a valid address is answered 422 and
\* the handler never runs for it: the step leaves the store, the identifier
\* counter and every handler position unchanged, no email is sent, and no
\* request in a handler carries an invalid email.
C3_InvalidEmailRejected ==
    [][/\ (/\ last' # last
           /\ last'.ep = "/lead"
           /\ "email" \in DOMAIN last'.body
           /\ ~ValidEmail(last'.body.email))
          => (/\ last'.status = 422
              /\ ~last'.created
              /\ last'.mail = NotCalled
              /\ store' = store /\ nextId' = nextId /\ pc' = pc /\ okIds' = okIds)
       /\ \A w \in Workers :
            req'[w].ep = "/lead" => ValidEmail(req'[w].body.email)]_vars

C3_Witness ==
    /\ last.ep = "/lead" /\ last.status = 422
    /\ "email" \in DOMAIN last.body /\ ~ValidEmail(last.body.email)
    /\ "name" \in DOMAIN last.body

\* C4 (as claimed): every POST /book with a valid body returns the success
\* payload, with exactly one booking record under the returned id, an id no
\* earlier success response carried.
C4_EveryValidBookingSucceeds ==
    (last.ep = "/book" /\ Booking(last.body).ok) =>
        /\ last.status = 200
        /\ Cardinality(WithId("booking", last.id)) = 1
        /\ \A i \in 1..(Len(okIds) - 1) : okIds[i] # last.id

\* C4 (amended): a valid POST /book whose create_document call finds the
\* store reachable adds exactly one record, its payload under a fresh id, to
\* the booking collection and nothing elsewhere; with the store unavailable
\* it adds nothing and answers 500.  When the handler answers it changes no
\* collection; a success answer carries the id of that record, which no
\* earlier success answer of /lead or /book carried.
C4_BookingPersistsOnce ==
    [][\A w \in Workers :
        /\ (pc[w] = "create" /\ req[w].ep = "/book" /\ pc'[w] # "create") =>
              IF storage = "reachable"
              THEN /\ pc'[w] = "notify"
                   /\ \A c \in Collections : WithId(c, req'[w].id) = {}
                   /\ store' = [store EXCEPT !["booking"] =
                                   Append(@, req[w].payload @@ ("_id" :> req'[w].id))]
              ELSE /\ store' = store
                   /\ last'.ep = "/book" /\ last'.status = 500
        /\ (pc[w] = "notify" /\ req[w].ep = "/book" /\ pc'[w] = "idle") =>
              /\ store' = store
              /\ last'.ep = "/book" /\ last'.status \in {200, 500}
              /\ last'.status = 200 =>
                    /\ last'.id = req[w].id
                    /\ last'.id \notin Range(okIds)
                    /\ Cardinality(WithId("booking", last'.id)) = 1
                    /\ \A c \in Collections \ {"booking"} : WithId(c, last'.id) = {}]_vars

C4_Witness ==
    /\ last.ep = "/book" /\ last.status = 200
    /\ Len(okIds) = 2 /\ okIds[2] = last.id
    /\ Len(store["booking"]) + Len(store["lead"]) = 2

\* C5 (as claimed): send_email returns False, without raising and without
\* connecting, whenever host, user, password or recipient is missing or
\* empty; it connects only when host, user, password, sender and recipient
\* are all non-empty.
C5_UnconfiguredIsNoOp ==
    (lastSend.returned # "not called") =>
        /\ ~Configured(environ, lastSend.to) =>
              (lastSend.returned = "False" /\ ~lastSend.connected)
        /\ lastSend.connected => Configured(environ, lastSend.to)

C7_LeadNameNonEmpty ==
    /\ \A i \in DOMAIN store["lead"] :
          LET r == store["lead"][i]
          IN  "name" \in DOMAIN r /\ r.name # "" /\ ValidEmail(r.email)
    /\ \A w \in Workers :
          (pc[w] = "notify" /\ req[w].ep = "/lead" /\ "source" \notin DOMAIN req[w].body)
             => \A i \in WithId("lead", req[w].id) : store["lead"][i].source = "website"

\* C7 (amended): every stored lead has a name (a string, possibly empty) and
\* a valid email; the record a POST /lead stores is its validated payload,
\* with source "website" when the request gave none.
C7_LeadConstraints ==
    /\ \A i \in DOMAIN store["lead"] :
          LET r == store["lead"][i]
          IN  "name" \in DOMAIN r /\ r.name # PyNone /\ ValidEmail(r.email)
    /\ \A w \in Workers :
          (pc[w] = "notify" /\ req[w].ep = "/lead") =>
             /\ Cardinality(WithId("lead", req[w].id)) = 1
             /\ \A i \in WithId("lead", req[w].id) :
                   /\ Without(store["lead"][i], "_id") = req[w].payload
                   /\ "source" \notin DOMAIN req[w].body
                         => /\ "source" \in DOMAIN store["lead"][i]
                            /\ store["lead"][i].source = "website"

C7_Witness ==
    \E w \in Workers :
        /\ pc[w] = "notify" /\ req[w].ep = "/lead"
        /\ "source" \notin DOMAIN req[w].body
        /\ \E i \in DOMAIN store["lead"] : store["lead"][i].source = "website"

\* C8: a validated POST /lead or /book ends in a success answer carrying the
\* id create_document returned (the id of the stored record), or in a 500
\* with the error message; when create_document fails the answer is the 500
\* and send_email is not called.
C8_TwoOutcomes ==
    (last.ep \in PostEps /\ last.status # 422) =>
        \/ /\ last.status = 200
           /\ last.created /\ last.id = last.recId
           /\ last.mail.returned \in {"True", "False"}
           /\ \E i \in WithId(CollectionOf(last.ep), last.id) :
                 Without(store[CollectionOf(last.ep)][i], "_id")
                    = PayloadOf(last.ep, last.body)
        \/ /\ last.status = 500
           /\ last.detail # ""
           /\ IF last.created
              THEN last.mail.returned = "raised" /\ last.detail = last.mail.error
              ELSE last.mail = NotCalled /\ last.detail = "Database not available"

C8_Witness ==
    /\ last.ep \in PostEps /\ last.status = 500
    /\ ~last.created /\ last.mail = NotCalled

\* C9: no step of any endpoint removes or changes a stored document: every
\* collection only grows at its end.
C9_RecordsImmutable ==
    [][\A c \in Collections : IsPrefix(store[c], store'[c])]_vars

C9_Witness ==
    /\ last.ep = "/services" /\ last.docs # <<>> /\ last.status = 200
    /\ store["lead"] # <<>> /\ store["booking"] # <<>>

\* C10 (as claimed): the record is in the store before the notification is
\* attempted and stays there; a failure of a configured SMTP session gives a
\* 500 with the record kept; with SMTP unconfigured the send is a no-op and
\* the answer is the success payload.
C10_PersistThenNotify ==
    /\ \A w \in Workers :
          pc[w] = "notify" =>
             Cardinality(WithId(CollectionOf(req[w].ep), req[w].id)) = 1
    /\ (last.ep \in PostEps /\ last.created) =>
          /\ Cardinality(WithId(CollectionOf(last.ep), last.recId)) = 1
          /\ (last.mail.connected /\ last.mail.returned = "raised") => last.status = 500
          /\ ~Configured(environ, PyOr(getenv(environ, "EMAIL_TO", PyNone), "")) =>
                (last.mail.returned = "False" /\ last.status = 200)

====
